---- MODULE Spec2Model ----
\* Model of scripts/visualize_intermediate_steps.py: the command line driver
\* main(), the checkpoint key remapping of load_pipeline(), the batch collation
\* collate_fn() and the batch loop evaluate() with the files it writes.
EXTENDS Integers, Sequences, FiniteSets, TLC

VARIABLES
    \* ---- evaluate() ----
    pc,                \* position inside evaluate()
    dataset,           \* the records the data loader iterates, in order
    batch_size,        \* DataLoader(batch_size=...)
    num_batches,       \* evaluate(..., num_batches, ...)
    save_intermediate_every,
    cursor,            \* records already handed out by the data loader
    step,              \* enumerate(dataloader) index of the current batch
    batch,             \* the collated batch being processed
    gen,               \* the generator returned by pipeline.run_clean(...)
    t,                 \* evaluate's own counter of consumed pairs
    last_pair,         \* the (timestep, image_batch) pair consumed last
    pred_images,       \* the PIL images of the pair consumed last
    j,                 \* position of the final zip(...) loop
    processed,         \* batches whose SAVE step is complete
    dirs,              \* directories created under output_dir
    writes,            \* every image.save(...) call so far, in order
    failure,           \* where an exception was raised, "none" before
    \* ---- main() ----
    mpc,               \* position inside main()
    args,              \* the parsed command line
    inferred,          \* what get_color_mode(dataset_name) returns
    raw,               \* the records of the split as load_dataset returns them
    perm,              \* the order dataset.shuffle(seed1) produces
    ds,                \* main's local variable dataset
    loaded,            \* resources main() has loaded so far
    color_mode,        \* args.color_mode once resolved
    color_channels,    \* args.color_channels once set
    \* ---- collate_fn() ----
    c_examples,        \* the examples handed to collate_fn
    c_batch,           \* what collate_fn returned
    \* ---- load_pipeline() ----
    state_dict,        \* checkpoint keys in iteration order
    lk,                \* keys already remapped
    state_dict_new     \* remapped key -> checkpoint key whose tensor it holds

evalVars == <<pc, dataset, batch_size, num_batches, save_intermediate_every,
              cursor, step, batch, gen, t, last_pair, pred_images, j,
              processed, dirs, writes, failure>>
mainVars == <<mpc, args, inferred, raw, perm, ds, loaded, color_mode,
              color_channels>>
collateVars == <<c_examples, c_batch>>
loadVars == <<state_dict, lk, state_dict_new>>
vars == <<evalVars, mainVars, collateVars, loadVars>>

\* ------------------------------------------------------------------ bounds
MaxRecords == 2
MaxBatchSize == 2
MaxNumBatches == 2
MaxLen == 2
MaxCollate == 2
MaxKeys == 3
MaxRaw == 2

\* ------------------------------------------------------- program constants
num_train_timesteps == 1000
default_batch_size == 32
default_num_batches == 1
default_save_intermediate_every == -1

\* ------------------------------------------------------------------ strings
\* A string is the sequence of its characters.
Min(a, b) == IF a <= b THEN a ELSE b
Max(a, b) == IF a >= b THEN a ELSE b

PNG == <<".", "p", "n", "g">>
IsDigit(c) == c \in {"0", "1", "2", "3", "4", "5", "6", "7", "8", "9"}
DigitChar(d) == <<"0", "1", "2", "3", "4", "5", "6", "7", "8", "9">>[d + 1]

RECURSIVE Digits(_)
Digits(n) == IF n < 10 THEN <<DigitChar(n)>>
             ELSE Digits(n \div 10) \o <<DigitChar(n % 10)>>

\* f'{t:04d}' for t >= 0: decimal digits, zero-padded on the left to width 4.
Fmt04(n) ==
    LET d == Digits(n)
    IN  IF Len(d) >= 4 THEN d ELSE [i \in 1..(4 - Len(d)) |-> "0"] \o d

\* filename + f'_{t:04d}.png'
IntermediateName(filename, n) == filename \o <<"_">> \o Fmt04(n) \o PNG

\* os.path.join(dir, name) is kept as the pair (dir, name).
GoldDir == "images_gold"
PredDir == "images_pred"

\* ------------------------------------------------------------ the data set
FileA == <<"a">> \o PNG
FileB == <<"b">> \o PNG
\* eos_id = tokenizer.encode(tokenizer.eos_token)[0]; TokX, TokY: other ids.
EosId == 0
TokX == EosId + 7

\* Record i of the data set handed to evaluate(): every third record has a
\* different filename, odd records have one token and even records two.
RecordAt(i) ==
    [id |-> i,
     filename |-> IF i % 3 = 0 THEN FileB ELSE FileA,
     formula |-> IF i % 2 = 1 THEN <<TokX>> ELSE <<TokX, EosId>>]

DatasetOf(n) == [i \in 1..n |-> RecordAt(i)]

\* preprocess_formula + transform: the tokenizer returns the ids and a mask
\* of ones of the same length; image and filename are passed along.
Ones(n) == [i \in 1..n |-> 1]
Transform(rec) ==
    [input_ids |-> rec.formula,
     attention_mask |-> Ones(Len(rec.formula)),
     filenames |-> rec.filename,
     gold_images |-> [kind |-> "gold", rec |-> rec.id]]

\* ------------------------------------------------------------- collate_fn
RECURSIVE SeqMax(_)
SeqMax(s) == IF Len(s) = 1 THEN s[1] ELSE Max(s[1], SeqMax(Tail(s)))

Repeat(x, n) == [i \in 1..n |-> x]

\* Variant of MaxLenOf without the "+ 1".
MaxLenOfBug(examples) ==
    SeqMax([i \in 1..Len(examples) |-> Len(examples[i].input_ids)])

\* max_len = max([len(example['input_ids']) for example in examples]) + 1
MaxLenOf(examples) ==
    SeqMax([i \in 1..Len(examples) |-> Len(examples[i].input_ids)]) + 1

\* The body of collate_fn's loop for one example.
PadExample(example, max_len) ==
    LET orig_len == Len(example.input_ids)
    IN  [input_ids |-> example.input_ids \o Repeat(EosId, max_len - orig_len),
         attention_mask |-> example.attention_mask \o <<1>>
                            \o Repeat(0, max_len - orig_len - 1)]

collate_fn(examples) ==
    LET max_len == MaxLenOf(examples)
        out == [i \in 1..Len(examples) |-> PadExample(examples[i], max_len)]
    IN  [input_ids |-> [i \in 1..Len(examples) |-> out[i].input_ids],
         attention_mask |-> [i \in 1..Len(examples) |-> out[i].attention_mask],
         filenames |-> [i \in 1..Len(examples) |-> examples[i].filenames],
         gold_images |-> [i \in 1..Len(examples) |-> examples[i].gold_images]]

\* ------------------------------------------------------------- evaluate()
NoBatch == [input_ids |-> <<>>, attention_mask |-> <<>>,
            filenames |-> <<>>, gold_images |-> <<>>]
NoGen == [next |-> -1, n |-> 0, yielded |-> 0]
NoPair == [ts |-> -1, shape |-> <<>>]

\* The sampling loop (DDPMPipeline.run_clean): a generator holding the next
\* timestep to run; it yields one (timestep, image_batch) pair per timestep
\* from the schedule's start down to 0.
run_clean(n) == [next |-> num_train_timesteps - 1, n |-> n, yielded |-> 0]
GenExhausted(g) == g.next < 0
GenPair(g, b) ==
    [ts |-> g.next,
     shape |-> <<g.n, "channels", "height", "width">>,
     images |-> [i \in 1..g.n |->
                   [kind |-> "pred", batch |-> b, ts |-> g.next,
                    seq |-> g.yielded, row |-> i]]]
GenAdvance(g) == [g EXCEPT !.next = g.next - 1, !.yielded = g.yielded + 1]

\* Variant of SampleBatchSize: the data loader's batch size is passed.
SampleBatchSizeBug(b) == batch_size

\* batch_size = input_ids.shape[0]
SampleBatchSize(b) == Len(b.input_ids)

\* Variants of SaveNow: without the "> 0" guard (a stride <= 0 saves every
\* pair), and counting pairs from 1.
SaveNowNoGuard(k, n) == n % (IF k > 0 THEN k ELSE 1) = 0
SaveNowOffByOne(k, n) == k > 0 /\ (n + 1) % k = 0

\* if save_intermediate_every > 0: if t % save_intermediate_every == 0:
SaveNow(k, n) == k > 0 /\ n % k = 0

\* Variant of Rebind: the first converted images are kept.
KeepEarliest(old, new) == IF old = <<>> THEN new ELSE old

\* pred_images = pipeline.numpy_to_pil(pred_images) rebinds the loop variable.
Rebind(old, new) == new

\* Variant of BreakNow: compares with num_batches.
BreakNowOffByOne(s, nb) == s = nb

\* if step == num_batches-1: break
BreakNow(s, nb) == s = nb - 1

\* zip(filenames, gold_images, pred_images) stops at the shortest.
ZipLen(b, imgs) == Min(Min(Len(b.filenames), Len(b.gold_images)), Len(imgs))

Write(dir, name, img) == [dir |-> dir, name |-> name, img |-> img, step |-> step]

SaveEveryValues == {-1, 0, 300, 999}

EvalIdle ==
    /\ pc = "idle" /\ dataset = <<>> /\ batch_size = default_batch_size
    /\ num_batches = default_num_batches
    /\ save_intermediate_every = default_save_intermediate_every
    /\ cursor = 0 /\ step = -1 /\ batch = NoBatch /\ gen = NoGen /\ t = 0
    /\ last_pair = NoPair /\ pred_images = <<>> /\ j = 0 /\ processed = 0
    /\ dirs = {} /\ writes = <<>> /\ failure = "none"

\* gold_dir / pred_dir and the two os.makedirs(..., exist_ok=True)
MakeDirs ==
    /\ pc = "init"
    /\ dirs' = dirs \cup {GoldDir, PredDir}
    /\ pc' = "load"
    /\ UNCHANGED <<dataset, batch_size, num_batches, save_intermediate_every,
                   cursor, step, batch, gen, t, last_pair, pred_images, j,
                   processed, writes, failure>>

\* The data loader hands out the next batch_size records (fewer at the end),
\* transformed and collated; enumerate numbers them from 0.
LoadBatch ==
    /\ pc = "load"
    /\ cursor < Len(dataset)
    /\ LET hi == Min(cursor + batch_size, Len(dataset))
           examples == [i \in 1..(hi - cursor) |-> Transform(dataset[cursor + i])]
       IN  /\ batch' = collate_fn(examples)
           /\ cursor' = hi
    /\ step' = step + 1
    /\ pc' = "encode"
    /\ UNCHANGED <<dataset, batch_size, num_batches, save_intermediate_every,
                   gen, t, last_pair, pred_images, j, processed, dirs, writes, failure>>

\* The data loader is exhausted: the for loop ends and evaluate() returns.
Exhausted ==
    /\ pc = "load"
    /\ cursor >= Len(dataset)
    /\ pc' = "done"
    /\ UNCHANGED <<dataset, batch_size, num_batches, save_intermediate_every,
                   cursor, step, batch, gen, t, last_pair, pred_images, j,
                   processed, dirs, writes, failure>>

\* forward_text, the printing of the formulas, swap_step = -1, t = 0 and the
\* call of pipeline.run_clean.
Encode ==
    /\ pc = "encode"
    /\ t' = 0
    /\ gen' = run_clean(SampleBatchSize(batch))
    /\ last_pair' = NoPair
    /\ pc' = "sample"
    /\ UNCHANGED <<dataset, batch_size, num_batches, save_intermediate_every,
                   cursor, step, batch, pred_images, j, processed, dirs, writes, failure>>

\* One iteration of the for loop over run_clean: convert the yielded images,
\* save them when the stride says so, count the pair.
SampleStep ==
    /\ pc = "sample"
    /\ ~GenExhausted(gen)
    /\ LET pair == GenPair(gen, step)
           imgs == Rebind(pred_images, pair.images)
           n == ZipLen(batch, imgs)
       IN  /\ pred_images' = imgs
           /\ last_pair' = [ts |-> pair.ts, shape |-> pair.shape]
           /\ writes' = IF SaveNow(save_intermediate_every, t)
                        THEN writes \o [i \in 1..n |->
                                 Write(PredDir,
                                       IntermediateName(batch.filenames[i], t),
                                       imgs[i])]
                        ELSE writes
    /\ t' = t + 1
    /\ gen' = GenAdvance(gen)
    /\ UNCHANGED <<pc, dataset, batch_size, num_batches, save_intermediate_every,
                   cursor, step, batch, j, processed, dirs, failure>>

\* The generator is exhausted: the inner loop ends, the final zip loop starts.
SampleEnd ==
    /\ pc = "sample"
    /\ GenExhausted(gen)
    /\ j' = 1
    /\ pc' = "save_gold"
    /\ UNCHANGED <<dataset, batch_size, num_batches, save_intermediate_every,
                   cursor, step, batch, gen, t, last_pair, pred_images,
                   processed, dirs, writes, failure>>

\* gold_image.save(os.path.join(gold_dir, filename))
SaveGold ==
    /\ pc = "save_gold"
    /\ j <= ZipLen(batch, pred_images)
    /\ writes' = Append(writes, Write(GoldDir, batch.filenames[j], batch.gold_images[j]))
    /\ pc' = "save_pred"
    /\ UNCHANGED <<dataset, batch_size, num_batches, save_intermediate_every,
                   cursor, step, batch, gen, t, last_pair, pred_images, j,
                   processed, dirs, failure>>

\* pred_image.save(os.path.join(pred_dir, filename))
SavePred ==
    /\ pc = "save_pred"
    /\ writes' = Append(writes, Write(PredDir, batch.filenames[j], pred_images[j]))
    /\ j' = j + 1
    /\ pc' = "save_gold"
    /\ UNCHANGED <<dataset, batch_size, num_batches, save_intermediate_every,
                   cursor, step, batch, gen, t, last_pair, pred_images,
                   processed, dirs, failure>>

\* The zip loop is over: break when this was batch num_batches-1, else print
\* the separator and fetch the next batch.
NextOrBreak ==
    /\ pc = "save_gold"
    /\ j > ZipLen(batch, pred_images)
    /\ processed' = processed + 1
    /\ pc' = IF BreakNow(step, num_batches) THEN "done" ELSE "load"
    /\ UNCHANGED <<dataset, batch_size, num_batches, save_intermediate_every,
                   cursor, step, batch, gen, t, last_pair, pred_images, j,
                   dirs, writes, failure>>

\* Variant of Fail: the exception is caught and the loop goes on.
FailAndContinue ==
    /\ pc \notin {"idle", "done", "aborted"}
    /\ failure' = pc
    /\ pc' = "load"
    /\ UNCHANGED <<dataset, batch_size, num_batches, save_intermediate_every,
                   cursor, step, batch, gen, t, last_pair, pred_images, j,
                   processed, dirs, writes>>

\* Any call inside evaluate() raises: nothing catches it, the exception
\* leaves evaluate() and main(), and the process ends.
Fail ==
    /\ pc \notin {"idle", "done", "aborted"}
    /\ failure' = pc
    /\ pc' = "aborted"
    /\ UNCHANGED <<dataset, batch_size, num_batches, save_intermediate_every,
                   cursor, step, batch, gen, t, last_pair, pred_images, j,
                   processed, dirs, writes>>

PyNone == "<None>"
NoArgs == [color_mode |-> PyNone, filter_filename |-> <<>>]

MainIdle ==
    /\ mpc = "idle" /\ args = NoArgs /\ inferred = PyNone /\ raw = <<>>
    /\ perm = <<>> /\ ds = <<>> /\ loaded = {}
    /\ color_mode = PyNone /\ color_channels = 0
CollateIdle == c_examples = <<>> /\ c_batch = NoBatch
LoadIdle == state_dict = <<>> /\ lk = 0 /\ state_dict_new = {}

Init ==
    /\ pc = "init"
    /\ \E n \in 0..MaxRecords : dataset = DatasetOf(n)
    /\ batch_size \in 1..MaxBatchSize
    /\ num_batches \in -1..MaxNumBatches
    /\ save_intermediate_every \in SaveEveryValues
    /\ cursor = 0 /\ step = -1 /\ batch = NoBatch /\ gen = NoGen /\ t = 0
    /\ last_pair = NoPair /\ pred_images = <<>> /\ j = 0 /\ processed = 0
    /\ dirs = {} /\ writes = <<>> /\ failure = "none"
    /\ MainIdle /\ CollateIdle /\ LoadIdle

Next ==
    \/ (MakeDirs /\ UNCHANGED <<mainVars, collateVars, loadVars>>)
    \/ (LoadBatch /\ UNCHANGED <<mainVars, collateVars, loadVars>>)
    \/ (Exhausted /\ UNCHANGED <<mainVars, collateVars, loadVars>>)
    \/ (Encode /\ UNCHANGED <<mainVars, collateVars, loadVars>>)
    \/ (SampleStep /\ UNCHANGED <<mainVars, collateVars, loadVars>>)
    \/ (SampleEnd /\ UNCHANGED <<mainVars, collateVars, loadVars>>)
    \/ (SaveGold /\ UNCHANGED <<mainVars, collateVars, loadVars>>)
    \/ (SavePred /\ UNCHANGED <<mainVars, collateVars, loadVars>>)
    \/ (NextOrBreak /\ UNCHANGED <<mainVars, collateVars, loadVars>>)
    \/ (Fail /\ UNCHANGED <<mainVars, collateVars, loadVars>>)

Spec == Init /\ [][Next]_vars

\* ------------------------------------------------------- claims: evaluate
\* T: the number of batches the data loader yields (drop_last is False).
TotalBatches == (Len(dataset) + batch_size - 1) \div batch_size
\* The rows of batch b (0-based) and the record behind row i of batch b.
RowsOf(b) == 1..(Min((b + 1) * batch_size, Len(dataset)) - b * batch_size)
RecordOf(b, i) == dataset[b * batch_size + i]
WriteIdx == 1..Len(writes)
LastSeq == num_train_timesteps - 1

\* A name of the form <stem>_<4 digits>.png
IsIntermediateName(name) ==
    LET n == Len(name)
    IN  /\ n >= 9
        /\ SubSeq(name, n - 3, n) = PNG
        /\ \A i \in (n - 7)..(n - 4) : IsDigit(name[i])
        /\ name[n - 8] = "_"

\* C1 as stated: for every integer B, evaluate() has processed exactly
\* min(B, T) batches when it returns.
C1_Original ==
    pc = "done" => processed = Min(num_batches, TotalBatches)

\* C1 amended: when evaluate() returns it has processed exactly min(B, T)
\* batches if B >= 1 (stopping after batch index B-1 when B <= T, at data set
\* exhaustion when B > T), and all T batches if B <= 0, because step never
\* equals B-1 then.
C1_Amended ==
    pc = "done" =>
        /\ processed = IF num_batches >= 1 THEN Min(num_batches, TotalBatches)
                       ELSE TotalBatches
        /\ (num_batches >= 1 /\ num_batches <= TotalBatches)
               => (step = num_batches - 1 /\ cursor <= Len(dataset))
        /\ (num_batches > TotalBatches \/ num_batches <= 0)
               => cursor = Len(dataset)

C1_Witness ==
    /\ pc = "done" /\ num_batches = 1 /\ TotalBatches = 2
    /\ processed = 1 /\ cursor < Len(dataset)

\* C2: with save_intermediate_every <= 0, when evaluate() has returned no
\* write went to an intermediate name in images_pred, and every example of
\* every processed batch has exactly one predicted write and exactly one gold
\* write, each under the example's filename, and there are no other writes.
C2_NoIntermediate ==
    /\ save_intermediate_every <= 0 =>
           \A w \in WriteIdx :
               ~(writes[w].dir = PredDir /\ IsIntermediateName(writes[w].name))
    /\ (pc = "done" /\ save_intermediate_every <= 0) =>
        /\ \A b \in 0..(processed - 1) : \A i \in RowsOf(b) :
               /\ Cardinality({w \in WriteIdx :
                       /\ writes[w].dir = PredDir
                       /\ writes[w].name = RecordOf(b, i).filename
                       /\ writes[w].img.kind = "pred"
                       /\ writes[w].img.batch = b
                       /\ writes[w].img.row = i}) = 1
               /\ Cardinality({w \in WriteIdx :
                       /\ writes[w].dir = GoldDir
                       /\ writes[w].name = RecordOf(b, i).filename
                       /\ writes[w].img = [kind |-> "gold",
                                           rec |-> RecordOf(b, i).id]}) = 1
        /\ Len(writes) = 2 * Min(processed * batch_size, Len(dataset))

C2_Witness ==
    /\ pc = "done" /\ save_intermediate_every = -1
    /\ processed = 2 /\ Len(writes) = 4

\* C3 as stated: with k > 0 every intermediate file is named
\* <filename>_<step:04d>.png with step the timestep index of the yielded
\* pair whose image it holds, and that timestep index is a multiple of k.
C3_Original ==
    save_intermediate_every > 0 =>
        \A w \in WriteIdx :
            (writes[w].dir = PredDir /\ IsIntermediateName(writes[w].name)) =>
                /\ writes[w].name =
                       IntermediateName(
                           RecordOf(writes[w].img.batch, writes[w].img.row).filename,
                           writes[w].img.ts)
                /\ writes[w].img.ts % save_intermediate_every = 0

\* C3 amended: with k > 0 every intermediate file is named
\* <filename>_<step:04d>.png with step the 0-based position, in yield order,
\* of the pair whose image it holds (0 for the first, noisiest pair), and
\* that position is a multiple of k; no other pair is written.
C3_Amended ==
    save_intermediate_every > 0 =>
        \A w \in WriteIdx :
            (writes[w].dir = PredDir /\ IsIntermediateName(writes[w].name)) =>
                /\ writes[w].img.kind = "pred"
                /\ writes[w].img.batch = writes[w].step
                /\ writes[w].name =
                       IntermediateName(
                           RecordOf(writes[w].img.batch, writes[w].img.row).filename,
                           writes[w].img.seq)
                /\ writes[w].img.seq % save_intermediate_every = 0

C3_Witness ==
    /\ save_intermediate_every = 300
    /\ \E w \in WriteIdx :
           /\ writes[w].dir = PredDir
           /\ writes[w].name = IntermediateName(FileA, 300)
           /\ writes[w].img.seq = 300 /\ writes[w].img.ts = 699

\* C5: for every batch the pairs consumed from the sampling loop number
\* num_train_timesteps, their timestep indices strictly decrease and end at
\* 0, and every pair has the same 4-dimensional shape whose batch dimension
\* is the number of rows of the collated input.
C5_Sequence ==
    /\ [](pc \in {"save_gold", "save_pred"} =>
              (t = num_train_timesteps /\ last_pair.ts = 0))
    /\ [][t' = t + 1 =>
              /\ Len(last_pair'.shape) = 4
              /\ last_pair'.shape[1] = Len(batch.input_ids)
              /\ last_pair # NoPair =>
                     (last_pair'.ts < last_pair.ts
                      /\ last_pair'.shape = last_pair.shape)]_vars

C5_Witness ==
    /\ pc = "save_gold" /\ t = num_train_timesteps /\ last_pair.ts = 0
    /\ last_pair.shape[1] = 1 /\ batch_size = 2

\* C9: for every batch whose SAVE step is done, each record has its gold
\* image written under images_gold/<filename> and a predicted image written
\* under images_pred/<filename> that is the record's image from the last pair
\* yielded by the sampling run of that batch; no write under a record's
\* filename in images_pred holds an earlier pair's or an earlier batch's image.
C9_FinalImages ==
    /\ \A b \in 0..(processed - 1) : \A i \in RowsOf(b) :
           /\ \E w \in WriteIdx :
                  /\ writes[w].dir = GoldDir
                  /\ writes[w].name = RecordOf(b, i).filename
                  /\ writes[w].img = [kind |-> "gold", rec |-> RecordOf(b, i).id]
           /\ \E w \in WriteIdx :
                  /\ writes[w].dir = PredDir
                  /\ writes[w].name = RecordOf(b, i).filename
                  /\ writes[w].img = [kind |-> "pred", batch |-> b, ts |-> 0,
                                      seq |-> LastSeq, row |-> i]
    /\ \A w \in WriteIdx :
           (writes[w].dir = PredDir /\ ~IsIntermediateName(writes[w].name)) =>
               /\ writes[w].img.kind = "pred"
               /\ writes[w].img.seq = LastSeq
               /\ writes[w].img.batch = writes[w].step
               /\ writes[w].name =
                      RecordOf(writes[w].step, writes[w].img.row).filename

C9_Witness ==
    /\ processed = 2 /\ save_intermediate_every = 300
    /\ \E w \in WriteIdx :
           /\ writes[w].dir = PredDir /\ writes[w].name = FileA
           /\ writes[w].img.batch = 1 /\ writes[w].img.seq = LastSeq

\* C10: once a step of evaluate() has failed, no later batch is loaded or
\* processed, the failed step is not run again, and the files written before
\* the failure stay as they are; the failing step itself writes nothing more.
C10_AbortKeepsFiles ==
    [][/\ failure # "none" =>
              /\ cursor' = cursor /\ step' = step /\ processed' = processed
              /\ writes' = writes /\ t' = t /\ pc' = pc /\ failure' = failure
       /\ (failure = "none" /\ failure' # "none") =>
              /\ writes' = writes /\ pc' = "aborted"
              /\ cursor' = cursor /\ processed' = processed]_vars

C10_Witness ==
    /\ pc = "aborted" /\ failure = "sample" /\ step = 0 /\ t = 301
    /\ Len(writes) = 2 /\ cursor < Len(dataset)

\* ------------------------------------------------------------------ main()
UpperChars == <<"A", "B", "C", "D", "E", "F", "G", "H", "I", "J", "K", "L", "M",
                "N", "O", "P", "Q", "R", "S", "T", "U", "V", "W", "X", "Y", "Z">>
LowerChars == <<"a", "b", "c", "d", "e", "f", "g", "h", "i", "j", "k", "l", "m",
                "n", "o", "p", "q", "r", "s", "t", "u", "v", "w", "x", "y", "z">>
LowerChar(c) ==
    IF \E i \in 1..26 : UpperChars[i] = c
    THEN LowerChars[CHOOSE i \in 1..26 : UpperChars[i] = c]
    ELSE c
\* str.lower()
Lower(str) == [i \in 1..Len(str) |-> LowerChar(str[i])]

StrNone == <<"N", "o", "n", "e">>
FileC == <<"c">> \o PNG

\* Filenames a record of the split may carry, and values of --filter_filename.
MainFileNames == {FileA, FileB, StrNone}
FilterValues == {StrNone, <<"n", "o", "n", "e">>, <<"N", "O", "N", "E">>,
                 FileA, FileC}
ColorModeArgs == {PyNone, "grayscale", "rgb", "cmyk"}
\* What get_color_mode(dataset_name) may hand back.
InferredColorModes == {"grayscale", "rgb", "cmyk"}

Perms(n) == {f \in [1..n -> 1..n] : \A a, b \in 1..n : a # b => f[a] # f[b]}

\* Variant of ColorModeOk: nothing is asserted.
ColorModeOkBug(m) == TRUE

\* assert args.color_mode in ['grayscale', 'rgb']
ColorModeOk(m) == m \in {"grayscale", "rgb"}

\* if args.color_mode == 'grayscale': 1 else: 3
ChannelsOf(m) == IF m = "grayscale" THEN 1 ELSE 3

\* Variant of FilterActive: compares without lower().
FilterActiveBug(f) == f # StrNone

\* if args.filter_filename.lower() != 'none':
FilterActive(f) == Lower(f) # <<"n", "o", "n", "e">>

\* dataset.shuffle(seed=args.seed1): the order the seed fixes.
Shuffle(records, order) == [i \in 1..Len(records) |-> records[order[i]]]

\* dataset.filter(lambda x: x['filename'] == args.filter_filename)
FilterBy(records, f) ==
    LET Keep(r) == r.filename = f IN SelectSeq(records, Keep)

\* Lines 153-173: image size, encoder model type and color mode, each taken
\* from the command line or inferred from the dataset name.
ResolveDefaults ==
    /\ mpc = "start"
    /\ color_mode' = IF args.color_mode # PyNone THEN args.color_mode ELSE inferred
    /\ mpc' = "assert"
    /\ UNCHANGED <<args, inferred, raw, perm, ds, loaded, color_channels>>

\* Lines 174-178: the assertion, then color_channels.
AssertColorMode ==
    /\ mpc = "assert"
    /\ IF ColorModeOk(color_mode)
       THEN /\ color_channels' = ChannelsOf(color_mode)
            /\ mpc' = "load_data"
       ELSE /\ mpc' = "assertion_error"
            /\ UNCHANGED color_channels
    /\ UNCHANGED <<args, inferred, raw, perm, ds, loaded, color_mode>>

\* Lines 181-182: load_dataset and shuffle.
LoadDataset ==
    /\ mpc = "load_data"
    /\ ds' = Shuffle(raw, perm)
    /\ loaded' = loaded \cup {"dataset"}
    /\ mpc' = "filter"
    /\ UNCHANGED <<args, inferred, raw, perm, color_mode, color_channels>>

\* Lines 185-187: the filter by filename.
FilterDataset ==
    /\ mpc = "filter"
    /\ ds' = IF FilterActive(args.filter_filename)
             THEN FilterBy(ds, args.filter_filename)
             ELSE ds
    /\ mpc' = "models"
    /\ UNCHANGED <<args, inferred, raw, perm, loaded, color_mode, color_channels>>

\* Lines 190-271: tokenizer, text encoder, data loader, UNet and checkpoint.
LoadModels ==
    /\ mpc = "models"
    /\ loaded' = loaded \cup {"tokenizer", "text_encoder", "unet", "checkpoint"}
    /\ mpc' = "evaluate"
    /\ UNCHANGED <<args, inferred, raw, perm, ds, color_mode, color_channels>>

\* Line 273: evaluate(eval_dataloader, ..., args.num_batches,
\* args.save_intermediate_every) is entered.
CallEvaluate ==
    /\ mpc = "evaluate" /\ pc = "idle"
    /\ pc' = "init"
    /\ dataset' = ds
    /\ UNCHANGED <<batch_size, num_batches, save_intermediate_every,
                   cursor, step, batch, gen, t, last_pair, pred_images, j,
                   processed, dirs, writes, failure>>
    /\ UNCHANGED mainVars

RawDatasets ==
    UNION {[1..n -> MainFileNames] : n \in 0..MaxRaw}

MainInit ==
    /\ mpc = "start"
    /\ args \in [color_mode : ColorModeArgs, filter_filename : FilterValues]
    /\ inferred \in InferredColorModes
    /\ \E names \in RawDatasets :
           /\ raw = [i \in 1..Len(names) |->
                        [id |-> i, filename |-> names[i], formula |-> <<TokX>>]]
           /\ perm \in Perms(Len(names))
    /\ ds = <<>> /\ loaded = {} /\ color_mode = PyNone /\ color_channels = 0
    /\ EvalIdle /\ CollateIdle /\ LoadIdle

MainNext ==
    \/ (ResolveDefaults /\ UNCHANGED <<evalVars, collateVars, loadVars>>)
    \/ (AssertColorMode /\ UNCHANGED <<evalVars, collateVars, loadVars>>)
    \/ (LoadDataset /\ UNCHANGED <<evalVars, collateVars, loadVars>>)
    \/ (FilterDataset /\ UNCHANGED <<evalVars, collateVars, loadVars>>)
    \/ (LoadModels /\ UNCHANGED <<evalVars, collateVars, loadVars>>)
    \/ (CallEvaluate /\ UNCHANGED <<collateVars, loadVars>>)
    \/ (MakeDirs /\ UNCHANGED <<mainVars, collateVars, loadVars>>)

SpecMain == MainInit /\ [][MainNext]_vars

\* ---------------------------------------------------------- claims: main()
Shuffled == Shuffle(raw, perm)
Filtered == mpc \in {"models", "evaluate"}
DsIds == {ds[i].id : i \in 1..Len(ds)}
IsNoneAnyCase(f) == Lower(f) = Lower(StrNone)

\* C6 as stated: if F is the filename of at least one record, the data set
\* used for inference is exactly the records whose filename is F; if F is
\* "None" in any letter case, it is the shuffled data set, unfiltered.
C6_Original ==
    Filtered =>
        /\ (\E i \in 1..Len(raw) : raw[i].filename = args.filter_filename) =>
               /\ DsIds = {raw[i].id : i \in {x \in 1..Len(raw) :
                               raw[x].filename = args.filter_filename}}
               /\ Len(ds) = Cardinality(DsIds)
        /\ IsNoneAnyCase(args.filter_filename) => ds = Shuffled

\* C6 amended: if F is not "None" in any letter case and is the filename of
\* at least one record, the data set used for inference is exactly the
\* records whose filename is F, in shuffled order; if F is "None" in any
\* letter case, it is the shuffled data set, unfiltered, also when some
\* record's filename is F.
C6_Amended ==
    Filtered =>
        /\ (/\ ~IsNoneAnyCase(args.filter_filename)
            /\ \E i \in 1..Len(raw) : raw[i].filename = args.filter_filename) =>
               /\ DsIds = {raw[i].id : i \in {x \in 1..Len(raw) :
                               raw[x].filename = args.filter_filename}}
               /\ Len(ds) = Cardinality(DsIds)
               /\ \A a, b \in 1..Len(ds) : a < b =>
                      \E x, y \in 1..Len(Shuffled) :
                          x < y /\ Shuffled[x] = ds[a] /\ Shuffled[y] = ds[b]
        /\ IsNoneAnyCase(args.filter_filename) => ds = Shuffled

C6_Witness ==
    /\ Filtered /\ args.filter_filename = FileA
    /\ Len(raw) = 2 /\ Len(ds) = 1 /\ ds[1].filename = FileA

\* C8: if the effective color mode (the command line's, else the inferred
\* one) is neither 'grayscale' nor 'rgb', main() stops at the assertion with
\* no data set, no model, no output directory and no file; otherwise
\* color_channels is 1 for 'grayscale' and 3 for 'rgb'.
C8_ColorMode ==
    LET eff == IF args.color_mode # PyNone THEN args.color_mode ELSE inferred
    IN  mpc \notin {"idle", "start", "assert"} =>
            IF eff \notin {"grayscale", "rgb"}
            THEN /\ mpc = "assertion_error"
                 /\ loaded = {} /\ ds = <<>> /\ dirs = {} /\ writes = <<>>
                 /\ pc = "idle"
            ELSE /\ mpc # "assertion_error"
                 /\ color_channels = IF eff = "grayscale" THEN 1 ELSE 3

C8_Witness ==
    /\ mpc = "assertion_error" /\ args.color_mode = "cmyk"
    /\ loaded = {} /\ dirs = {}

\* ------------------------------------------------------ collate_fn, alone
TokY == EosId + 9
TokenSeqs == UNION {[1..n -> {EosId, TokX, TokY}] : n \in 0..MaxLen}

\* Example i of a batch as transform() hands it to collate_fn.
ExampleOf(ids, i) ==
    [input_ids |-> ids,
     attention_mask |-> Ones(Len(ids)),
     filenames |-> IF i % 2 = 1 THEN FileA ELSE FileB,
     gold_images |-> [kind |-> "gold", rec |-> i]]

CollateInit ==
    /\ \E n \in 1..MaxCollate : \E idss \in [1..n -> TokenSeqs] :
           c_examples = [i \in 1..n |-> ExampleOf(idss[i], i)]
    /\ c_batch = NoBatch
    /\ EvalIdle /\ MainIdle /\ LoadIdle

\* The data loader calls collate_fn on the examples of one batch.
Collate ==
    /\ c_batch = NoBatch
    /\ c_batch' = collate_fn(c_examples)
    /\ UNCHANGED c_examples

CollateNext == Collate /\ UNCHANGED <<evalVars, mainVars, loadVars>>

SpecCollate == CollateInit /\ [][CollateNext]_vars

\* C4: for N examples of lengths L_i with M the largest, the token-id and
\* mask matrices are N x (M+1); row i keeps the original ids at 0..L_i-1 and
\* holds the end-of-sequence id from L_i on; the mask keeps the original mask
\* at 0..L_i-1, is 1 at L_i and 0 after it; filenames and gold images pass
\* through in order.
C4_Collate ==
    c_batch # NoBatch =>
        LET N == Len(c_examples)
            L(i) == Len(c_examples[i].input_ids)
            M == CHOOSE m \in 0..(MaxLen + 1) :
                     /\ \A i \in 1..N : L(i) <= m
                     /\ \E i \in 1..N : L(i) = m
        IN  /\ Len(c_batch.input_ids) = N
            /\ Len(c_batch.attention_mask) = N
            /\ \A i \in 1..N :
                   /\ Len(c_batch.input_ids[i]) = M + 1
                   /\ Len(c_batch.attention_mask[i]) = M + 1
                   /\ \A q \in 1..(M + 1) :
                          /\ q <= L(i) =>
                                 /\ c_batch.input_ids[i][q] =
                                        c_examples[i].input_ids[q]
                                 /\ c_batch.attention_mask[i][q] =
                                        c_examples[i].attention_mask[q]
                          /\ q > L(i) => c_batch.input_ids[i][q] = EosId
                          /\ q = L(i) + 1 => c_batch.attention_mask[i][q] = 1
                          /\ q > L(i) + 1 => c_batch.attention_mask[i][q] = 0
            /\ c_batch.filenames =
                   [i \in 1..N |-> c_examples[i].filenames]
            /\ c_batch.gold_images =
                   [i \in 1..N |-> c_examples[i].gold_images]

C4_Witness ==
    /\ c_batch # NoBatch /\ Len(c_examples) = 2
    /\ Len(c_examples[1].input_ids) = 0 /\ Len(c_examples[2].input_ids) = 2
    /\ c_batch.attention_mask[1] = <<1, 0, 0>>
    /\ c_batch.input_ids[1] = <<EosId, EosId, EosId>>

\* --------------------------------------------------------- load_pipeline
Mod == <<"m", "o", "d", "u", "l", "e", ".">>

\* str.replace(old, ''): every occurrence of old, found left to right
\* without overlap, is removed.
RECURSIVE StrRemove(_, _)
StrRemove(str, old) ==
    IF Len(str) < Len(old) THEN str
    ELSE IF SubSeq(str, 1, Len(old)) = old
         THEN StrRemove(SubSeq(str, Len(old) + 1, Len(str)), old)
         ELSE <<str[1]>> \o StrRemove(Tail(str), old)

\* k_out = k.replace('module.', '')
RemapKey(k) == StrRemove(k, Mod)

KeyW == <<"w">>
KeyAW == <<"a", ".", "w">>
CheckpointKeys == {KeyW, KeyAW, Mod \o KeyW, Mod \o KeyAW,
                   <<"a", ".">> \o Mod \o KeyW, Mod \o Mod \o KeyW}

LoadInit ==
    /\ \E n \in 0..MaxKeys : \E ks \in [1..n -> CheckpointKeys] :
           /\ \A a, b \in 1..n : a # b => ks[a] # ks[b]
           /\ state_dict = ks
    /\ lk = 0 /\ state_dict_new = {}
    /\ EvalIdle /\ MainIdle /\ CollateIdle

\* One iteration of `for k in state_dict`: state_dict_new[k_out] = state_dict[k]
\* (the tensor is named by the checkpoint key it came from).
RemapNext ==
    /\ lk < Len(state_dict)
    /\ LET k == state_dict[lk + 1]
           k_out == RemapKey(k)
       IN  state_dict_new' =
               {e \in state_dict_new : e[1] # k_out} \cup {<<k_out, k>>}
    /\ lk' = lk + 1
    /\ UNCHANGED state_dict

LoadNext == RemapNext /\ UNCHANGED <<evalVars, mainVars, collateVars>>

SpecLoad == LoadInit /\ [][LoadNext]_vars

HasPrefix(str, pre) ==
    Len(str) >= Len(pre) /\ SubSeq(str, 1, Len(pre)) = pre

\* C7: when the loop is over, every checkpoint key that starts with
\* `module.` is loaded under the key with that one prefix removed, every
\* other key under its own name, and no two checkpoint keys share a
\* remapped key.
C7_PrefixOnly ==
    lk = Len(state_dict) =>
        /\ \A i \in 1..Len(state_dict) :
               LET k == state_dict[i]
               IN  IF HasPrefix(k, Mod)
                   THEN <<SubSeq(k, Len(Mod) + 1, Len(k)), k>> \in state_dict_new
                   ELSE <<k, k>> \in state_dict_new
        /\ Cardinality(state_dict_new) = Len(state_dict)

====
